---- MODULE Spec2Model ----
(***************************************************************************)
(* Session / token lifecycle of the Fyers proxy.                           *)
(*                                                                         *)
(*   src/app.py        the Flask proxy: globals ACCESS_TOKEN,              *)
(*                     REFRESH_TOKEN, fyers_instance and its handlers      *)
(*   src/fyers_auth.py class FyersAuthenticator and its __main__ script    *)
(*   src/main.py       the analyst backend: fyers_authenticator,           *)
(*                     fyers_api_client, startup hook, signal endpoint     *)
(*                                                                         *)
(* Spec      every handler runs to completion before the next starts.      *)
(* ConcSpec  the handlers of app.py run on NumThreads threads and          *)
(*           interleave between any two accesses of a global.              *)
(***************************************************************************)
EXTENDS Integers, FiniteSets, Sequences, TLC

\* ------------------------------------------------------------------ bounds
MaxTok == 2          \* distinct bearer tokens the provider can issue
NumThreads == 2      \* request-handling threads of ConcSpec
MaxAttempts == 2     \* the count of client constructions saturates here

\* ----------------------------------------------------------- Python values
\* A token is a positive number; a client handle is identified by the token
\* it was constructed with.
None == 0            \* a falsy Python value: None or the empty string ""
Absent == -1         \* key not present in a dict
Tokens == 1..MaxTok
Truthy(v) == v > 0   \* bool(v) for None, "" and tokens / handles

FyersModel(token) == token      \* fyersModel.FyersModel(token=token, ...)
BuiltFrom(client) == client     \* the token a handle was constructed with

\* --------------------------------------------------------------- variables
VARIABLES
    ACCESS_TOKEN,      \* app.py global
    REFRESH_TOKEN,     \* app.py global
    fyers_instance,    \* app.py global
    prog,              \* the program this process runs: "app", "main" or "script"
    auth,              \* the FyersAuthenticator of main.py or of the fyers_auth.py script
    fyers_api_client,  \* main.py global
    started,           \* main.py: before_first_request hook has run
    script_pc,         \* position of the fyers_auth.py __main__ script
    last,              \* observation of the handler that completed last
    mutation,          \* the most recent mutation of the session (see Mutation)
    th                 \* ConcSpec: per-thread position and locals

vars == <<ACCESS_TOKEN, REFRESH_TOKEN, fyers_instance, prog, auth, fyers_api_client,
          started, script_pc, last, mutation, th>>
appvars == <<ACCESS_TOKEN, REFRESH_TOKEN, fyers_instance>>
mainvars == <<prog, auth, fyers_api_client, started, script_pc>>

\* The session of app.py as a record.
Session == [tok |-> ACCESS_TOKEN, rt |-> REFRESH_TOKEN, inst |-> fyers_instance]

\* ----------------------------------------------------- requests and replies
\* Body / query of a request.  kind:
\*   unreadable  request.json raises (malformed JSON, wrong content type)
\*   null        None: JSON null or no body
\*   emptydict   {}            emptylist  []
\*   scalar      a truthy JSON number or boolean
\*   dict / list a non-empty container; `keys` are the required field names
\*               found in it (it may hold other entries besides)
Payload(kind, keys) == [kind |-> kind, keys |-> keys]

PyTruthy(p) == p.kind \in {"scalar", "dict", "list"}      \* bool(data)
IsList(p) == p.kind \in {"emptylist", "list"}             \* isinstance(data, list)
\* `k in data`: TRUE / FALSE, or "raise" (TypeError) when data is not a container
PyIn(k, p) ==
    IF p.kind \in {"scalar", "null"} THEN "raise"
    ELSE IF k \in p.keys THEN "yes" ELSE "no"

\* The handlers of app.py that proxy one broker operation (logout apart).
NoFieldEndpoints == {"profile", "funds", "holdings", "positions", "tradebook",
                     "market_status", "gtt_orderbook", "orderbook"}
ArgEndpoints == {"orders_by_tag", "quotes"}
BodyFieldEndpoints == {"history", "depth", "optionchain", "place_multileg_order",
                       "place_gtt_order", "modify_gtt_order", "cancel_gtt_order",
                       "modify_order"}
BasketEndpoints == {"place_basket_orders", "modify_basket_orders"}
Endpoints == NoFieldEndpoints \cup ArgEndpoints \cup BodyFieldEndpoints
             \cup BasketEndpoints \cup {"place_order"}

\* The handlers follow five templates, which differ in how the try block
\* reads and tests the request; an observation records the template.
Template(ep) ==
    IF ep \in NoFieldEndpoints THEN "no_field"
    ELSE IF ep \in ArgEndpoints THEN "query_arg"
    ELSE IF ep \in BodyFieldEndpoints THEN "body_field"
    ELSE IF ep \in BasketEndpoints THEN "basket"
    ELSE "any_body"

\* The fields each handler tests for.
Required(ep) ==
    CASE ep = "history" -> {"symbol", "resolution", "range_from", "range_to"}
      [] ep \in {"depth", "optionchain"} -> {"symbol"}
      [] ep = "place_multileg_order" -> {"legs"}
      [] ep = "place_gtt_order" -> {"orderInfo"}
      [] ep = "modify_gtt_order" -> {"id", "orderInfo"}
      [] ep \in {"cancel_gtt_order", "modify_order"} -> {"id"}
      [] ep = "quotes" -> {"symbols"}
      [] ep = "orders_by_tag" -> {"order_tag"}
      [] OTHER -> {}

\* The payloads a request to `ep` is tried with.
PayloadsFor(ep) ==
    IF ep \in NoFieldEndpoints THEN {Payload("null", {})}
    ELSE IF ep \in ArgEndpoints
    THEN {Payload("dict", ks) : ks \in SUBSET Required(ep)}
    ELSE {Payload(k, {}) : k \in {"unreadable", "null", "emptydict", "emptylist", "scalar"}}
         \cup {Payload("dict", ks) : ks \in SUBSET Required(ep)}
         \cup {Payload("list", ks) : ks \in {{}, Required(ep)}}

\* The payload does not carry what the operation requires (the reading of
\* "lacks a required field" used by the validation claims).
Lacks(ep, p) ==
    IF ep \in BasketEndpoints THEN p.kind # "list"
    ELSE Required(ep) # {} /\ ~(Required(ep) \subseteq p.keys) /\ p.kind # "unreadable"

\* Outcome of the read-and-validate part of a handler's try block:
\*   "ok" go on to the broker call, "reject" return 400, "raise" an exception
\*   reaches the handler's except clause.
Validate(ep, p) ==
    IF ep \in NoFieldEndpoints THEN "ok"
    ELSE IF ep \in ArgEndpoints
    THEN IF Required(ep) \subseteq p.keys THEN "ok" ELSE "reject"
    ELSE IF p.kind = "unreadable" THEN "raise"
    ELSE IF ep \in BasketEndpoints
    THEN IF ~IsList(p) \/ ~PyTruthy(p) THEN "reject" ELSE "ok"
    ELSE IF ~PyTruthy(p) THEN "reject"
    ELSE IF ep = "place_order" THEN "ok"
    ELSE IF \E k \in Required(ep) : PyIn(k, p) = "raise" THEN "raise"
    ELSE IF \E k \in Required(ep) : PyIn(k, p) = "no" THEN "reject"
    ELSE "ok"

\* What a broker call can do: return a body whose "s" field is ok or error,
\* or raise.
Downstream == {"ok", "error", "raise"}

\* What session_builder.generate_token() can do: raise, return None, or return
\* a dict whose access_token is missing, null, "" or a token.
Response(kind, at, rt) == [kind |-> kind, at |-> at, rt |-> rt]
Responses ==
    {Response("raise", Absent, None), Response("null", Absent, None)}
    \cup {Response("dict", at, rt) :
             at \in {Absent, None} \cup Tokens, rt \in {None} \cup Tokens}

\* How a token exchange ended, as the claims classify it.
Exchange(resp) ==
    IF resp.kind = "raise" THEN "raise"
    ELSE IF resp.kind = "null" \/ resp.at = Absent THEN "nokey"
    ELSE IF ~Truthy(resp.at) THEN "falsy"
    ELSE "token"

\* ------------------------------------------------------------ observations
Obs(op, ep, status) ==
    [op |-> op, ep |-> ep, status |-> status,
     calls |-> 0,          \* broker calls made by the handler
     down |-> "none",      \* outcome of the broker call
     relayed |-> FALSE,    \* the response body is the broker's body, verbatim
     escaped |-> FALSE,    \* an exception left the handler uncaught
     val |-> "none",       \* outcome of Validate
     lacks |-> FALSE,      \* the payload lacked a required field
     exch |-> "none",      \* outcome of the token exchange
     built |-> 0,          \* FyersModel constructions attempted
     issued |-> None,      \* the access token the provider issued, if any
     body |-> "none",      \* shape of the response body, where a claim needs it
     upstream |-> "none",  \* what the text-generation service would answer
     code |-> FALSE,       \* callback: the query carried an auth_code
     offered |-> None,     \* callback: the token the provider would issue
                           \* for the code presented
     handshake |-> "part", \* callback: "full" when a /login was handled just
                           \* before and the query has a state parameter,
                           \* "none" when no request at all came before and
                           \* the query has no state, "part" otherwise
     attempts |-> 0,       \* app.py: FyersModel constructions attempted since
                           \* ACCESS_TOKEN was last assigned
     dead |-> FALSE,       \* app.py: a raising broker call invalidated the
                           \* session and no callback has succeeded since
     pre |-> Session,      \* app.py session when the handler started
     preclient |-> fyers_api_client,   \* main.py client when it started
     preauth |-> auth]     \* the authenticator when it started

\* ---------------------------------------------------------------- app.py
\* Mutant: keeps a handle that already exists instead of constructing one.
initialize_keeps_existing(token, inst, ctorOk) ==
    IF Truthy(inst) THEN [inst |-> inst, raised |-> FALSE, built |-> 0]
    ELSE IF Truthy(token)
    THEN IF ctorOk THEN [inst |-> FyersModel(token), raised |-> FALSE, built |-> 1]
                   ELSE [inst |-> inst, raised |-> TRUE, built |-> 1]
    ELSE [inst |-> inst, raised |-> FALSE, built |-> 0]

\* initialize_fyers_model(token): the new value of fyers_instance and whether
\* the constructor raised.  ctorOk: the FyersModel constructor returns.
initialize_fyers_model(token, inst, ctorOk) ==
    IF Truthy(token)
    THEN IF ctorOk THEN [inst |-> FyersModel(token), raised |-> FALSE, built |-> 1]
                   ELSE [inst |-> inst, raised |-> TRUE, built |-> 1]
    ELSE [inst |-> inst, raised |-> FALSE, built |-> 0]

\* _get_fyers_instance(): as above; the value returned is .inst
get_fyers_instance(tok, inst, ctorOk) ==
    IF ~Truthy(inst) /\ Truthy(tok)
    THEN initialize_fyers_model(tok, inst, ctorOk)
    ELSE [inst |-> inst, raised |-> FALSE, built |-> 0]


\* What a handler did: the session it leaves and the observation fields.
Result(s, status) ==
    [s |-> s, status |-> status, calls |-> 0, down |-> "none", relayed |-> FALSE,
     escaped |-> FALSE, val |-> "none", exch |-> "none", built |-> 0,
     issued |-> None, body |-> "none", upstream |-> "none"]

\* Mutant: the except clause forgets `fyers_instance = None`.
Invalidated_TokenOnly(s) == [s EXCEPT !.tok = None]

\* The except clause of every proxy handler: ACCESS_TOKEN = None; fyers_instance = None
Invalidated(s) == [s EXCEPT !.tok = None, !.inst = None]

\* Mutant: a failed exchange clears the session.
CallbackResult_ClearsOnFailure(s, hasCode, resp, ctorOk) ==
    IF ~hasCode THEN Result(s, 400)
    ELSE IF Exchange(resp) \in {"raise", "nokey"}
    THEN [Result(Invalidated(s), 500) EXCEPT !.exch = Exchange(resp)]
    ELSE LET s1 == [s EXCEPT !.tok = resp.at, !.rt = resp.rt]
             i == initialize_fyers_model(s1.tok, s1.inst, ctorOk)
         IN [Result([s1 EXCEPT !.inst = i.inst], IF i.raised THEN 500 ELSE 302)
                EXCEPT !.exch = Exchange(resp), !.built = i.built,
                       !.issued = IF Truthy(resp.at) THEN resp.at ELSE None]

\* fyers_auth_callback, run to completion.  hasCode: the query carries auth_code.
CallbackResult(s, hasCode, resp, ctorOk) ==
    IF ~hasCode THEN Result(s, 400)
    ELSE IF Exchange(resp) \in {"raise", "nokey"}
    THEN [Result(s, 500) EXCEPT !.exch = Exchange(resp)]
    ELSE LET s1 == [s EXCEPT !.tok = resp.at, !.rt = resp.rt]
             i == initialize_fyers_model(s1.tok, s1.inst, ctorOk)
         IN [Result([s1 EXCEPT !.inst = i.inst], IF i.raised THEN 500 ELSE 302)
                EXCEPT !.exch = Exchange(resp), !.built = i.built,
                       !.issued = IF Truthy(resp.at) THEN resp.at ELSE None]

\* Mutant: the `if not fyers_api` check is missing.
ProxyResult_NoAuthCheck(s, ep, p, d, ctorOk) ==
    LET g == get_fyers_instance(s.tok, s.inst, ctorOk)
        s1 == [s EXCEPT !.inst = g.inst]
        v == Validate(ep, p)
    IN IF g.raised
       THEN [Result(s, 500) EXCEPT !.escaped = TRUE, !.built = g.built]
       ELSE IF v = "reject"
       THEN [Result(s1, 400) EXCEPT !.val = v, !.built = g.built]
       ELSE IF v = "raise" \/ d = "raise" \/ ~Truthy(g.inst)
       THEN [Result(Invalidated(s1), 401) EXCEPT
                !.val = v, !.built = g.built, !.calls = 1, !.down = "raise"]
       ELSE [Result(s1, 200) EXCEPT
                !.val = v, !.built = g.built, !.calls = 1, !.down = d, !.relayed = TRUE]

\* Mutant: a body whose status is not ok is treated like a raising call.
ProxyResult_InterpretsStatus(s, ep, p, d, ctorOk) ==
    LET g == get_fyers_instance(s.tok, s.inst, ctorOk)
        s1 == [s EXCEPT !.inst = g.inst]
        v == Validate(ep, p)
    IN IF g.raised
       THEN [Result(s, 500) EXCEPT !.escaped = TRUE, !.built = g.built]
       ELSE IF ~Truthy(g.inst)
       THEN [Result(s1, 401) EXCEPT !.built = g.built]
       ELSE IF v = "reject"
       THEN [Result(s1, 400) EXCEPT !.val = v, !.built = g.built]
       ELSE IF v = "raise"
       THEN [Result(Invalidated(s1), 401) EXCEPT !.val = v, !.built = g.built]
       ELSE IF d # "ok"
       THEN [Result(Invalidated(s1), 401) EXCEPT
                !.val = v, !.built = g.built, !.calls = 1, !.down = d]
       ELSE [Result(s1, 200) EXCEPT
                !.val = v, !.built = g.built, !.calls = 1, !.down = d, !.relayed = TRUE]

\* Mutant: a broker call that raised is attempted a second time before the
\* except clause answers.
ProxyResult_RetriesOnce(s, ep, p, d, ctorOk) ==
    LET g == get_fyers_instance(s.tok, s.inst, ctorOk)
        s1 == [s EXCEPT !.inst = g.inst]
        v == Validate(ep, p)
    IN IF g.raised
       THEN [Result(s, 500) EXCEPT !.escaped = TRUE, !.built = g.built]
       ELSE IF ~Truthy(g.inst)
       THEN [Result(s1, 401) EXCEPT !.built = g.built]
       ELSE IF v = "reject"
       THEN [Result(s1, 400) EXCEPT !.val = v, !.built = g.built]
       ELSE IF v = "raise"
       THEN [Result(Invalidated(s1), 401) EXCEPT !.val = v, !.built = g.built]
       ELSE IF d = "raise"
       THEN [Result(Invalidated(s1), 401) EXCEPT
                !.val = v, !.built = g.built, !.calls = 2, !.down = d]
       ELSE [Result(s1, 200) EXCEPT
                !.val = v, !.built = g.built, !.calls = 1, !.down = d, !.relayed = TRUE]

\* Mutant: the payload is read and validated before the `if not fyers_api`
\* check.
ProxyResult_ValidatesFirst(s, ep, p, d, ctorOk) ==
    LET g == get_fyers_instance(s.tok, s.inst, ctorOk)
        s1 == [s EXCEPT !.inst = g.inst]
        v == Validate(ep, p)
    IN IF g.raised
       THEN [Result(s, 500) EXCEPT !.escaped = TRUE, !.built = g.built]
       ELSE IF v = "reject"
       THEN [Result(s1, 400) EXCEPT !.val = v, !.built = g.built]
       ELSE IF ~Truthy(g.inst)
       THEN [Result(s1, 401) EXCEPT !.built = g.built]
       ELSE IF v = "raise"
       THEN [Result(Invalidated(s1), 401) EXCEPT !.val = v, !.built = g.built]
       ELSE IF d = "raise"
       THEN [Result(Invalidated(s1), 401) EXCEPT
                !.val = v, !.built = g.built, !.calls = 1, !.down = d]
       ELSE [Result(s1, 200) EXCEPT
                !.val = v, !.built = g.built, !.calls = 1, !.down = d, !.relayed = TRUE]

\* A proxy handler (get_profile ... modify_basket_orders), run to completion.
ProxyResult(s, ep, p, d, ctorOk) ==
    LET g == get_fyers_instance(s.tok, s.inst, ctorOk)
        s1 == [s EXCEPT !.inst = g.inst]
        v == Validate(ep, p)
    IN IF g.raised
       THEN [Result(s, 500) EXCEPT !.escaped = TRUE, !.built = g.built]
       ELSE IF ~Truthy(g.inst)
       THEN [Result(s1, 401) EXCEPT !.built = g.built]
       ELSE IF v = "reject"
       THEN [Result(s1, 400) EXCEPT !.val = v, !.built = g.built]
       ELSE IF v = "raise"
       THEN [Result(Invalidated(s1), 401) EXCEPT !.val = v, !.built = g.built]
       ELSE IF d = "raise"
       THEN [Result(Invalidated(s1), 401) EXCEPT
                !.val = v, !.built = g.built, !.calls = 1, !.down = d]
       ELSE [Result(s1, 200) EXCEPT
                !.val = v, !.built = g.built, !.calls = 1, !.down = d, !.relayed = TRUE]

\* logout_fyers, run to completion.
LogoutResult(s, d, ctorOk) ==
    LET g == get_fyers_instance(s.tok, s.inst, ctorOk)
        s1 == [s EXCEPT !.inst = g.inst]
    IN IF g.raised
       THEN [Result(s, 500) EXCEPT !.escaped = TRUE, !.built = g.built]
       ELSE IF ~Truthy(g.inst)
       THEN [Result(Invalidated(s1), 200) EXCEPT !.built = g.built]
       ELSE IF d = "raise"
       THEN [Result(Invalidated(s1), 500) EXCEPT
                !.built = g.built, !.calls = 1, !.down = d]
       ELSE [Result(Invalidated(s1), 200) EXCEPT
                !.built = g.built, !.calls = 1, !.down = d, !.relayed = TRUE]

\* index: `if ACCESS_TOKEN and _get_fyers_instance()`
IndexResult(s, ctorOk) ==
    IF ~Truthy(s.tok) THEN Result(s, 200)
    ELSE LET g == get_fyers_instance(s.tok, s.inst, ctorOk)
         IN IF g.raised
            THEN [Result(s, 500) EXCEPT !.escaped = TRUE, !.built = g.built]
            ELSE [Result([s EXCEPT !.inst = g.inst], 200) EXCEPT !.built = g.built]

\* Mutant: login starts a fresh handshake by dropping the stored session.
LoginResult_DropsSession(s, urlOk) ==
    IF urlOk THEN Result([s EXCEPT !.tok = None, !.inst = None], 302)
    ELSE [Result(s, 500) EXCEPT !.escaped = TRUE]

\* login: builds the provider URL and redirects.  urlOk: generate_authcode returns.
LoginResult(s, urlOk) ==
    IF urlOk THEN Result(s, 302) ELSE [Result(s, 500) EXCEPT !.escaped = TRUE]

\* The text the text-generation service returns for a prompt: not JSON, JSON
\* lacking one of the six signal keys, or JSON holding all six.
Upstream == {"not_json", "missing_key", "valid"}

\* analyze_with_gemini, run to completion: a placeholder.  It reads the body
\* (no try block), answers 400 when it is falsy and otherwise 200 with
\* {"message", "received_data"}; the text-generation service is never called,
\* so `u`, its would-be answer, has no influence.
AnalyzeResult(s, p, u) ==
    IF p.kind = "unreadable"
    THEN [Result(s, 400) EXCEPT !.escaped = TRUE]
    ELSE IF ~PyTruthy(p)
    THEN [Result(s, 400) EXCEPT !.body = "error"]
    ELSE [Result(s, 200) EXCEPT !.body = "placeholder", !.upstream = u]

\* The observation a completed handler leaves.
Finish(op, ep, lacks, r) ==
    [Obs(op, ep, r.status) EXCEPT
        !.calls = r.calls, !.down = r.down, !.relayed = r.relayed,
        !.escaped = r.escaped, !.val = r.val, !.lacks = lacks,
        !.exch = r.exch, !.built = r.built, !.issued = r.issued, !.body = r.body,
        !.upstream = r.upstream]

\* The session-manager mutation a completed handler of app.py amounts to:
\*   auth_ok      a callback that installed a usable token and its client
\*   auth_failed  a callback that attempted the exchange and did not
\*   invalidate   an except clause or a logout cleared the session
\* or `prev` when it is none of these.
Mutation(op, r, prev) ==
    IF op = "callback"
    THEN IF r.exch = "none" THEN prev
         ELSE IF r.exch = "token" /\ r.status = 302 THEN "auth_ok"
         ELSE "auth_failed"
    ELSE IF op = "proxy"
    THEN IF r.status = 401 /\ (r.val = "raise" \/ r.down = "raise")
         THEN "invalidate" ELSE prev
    ELSE IF op = "logout" /\ ~r.escaped THEN "invalidate"
    ELSE prev

\* FyersModel constructions attempted since ACCESS_TOKEN was last assigned:
\* the callback assigns (line 85) and then constructs (line 88); an except
\* clause or a logout assigns after any construction of the handler.
Attempts(op, r) ==
    IF op = "callback" /\ r.exch \in {"falsy", "token"} THEN r.built
    ELSE IF r.s.tok # ACCESS_TOKEN THEN 0
    ELSE IF last.attempts + r.built > MaxAttempts THEN MaxAttempts
    ELSE last.attempts + r.built

\* The session was invalidated by a raising broker call and no callback has
\* succeeded since.
Dead(op, r) ==
    IF op \in {"proxy", "logout"} /\ r.down = "raise" THEN TRUE
    ELSE IF Mutation(op, r, mutation) = "auth_ok" THEN FALSE
    ELSE last.dead

\* The observation a completed handler of app.py leaves.
Observed(op, ep, lacks, r) ==
    [Finish(op, ep, lacks, r) EXCEPT
        !.attempts = Attempts(op, r), !.dead = Dead(op, r)]

\* Install the session a handler of app.py leaves, with observation `obs`.
InstallWith(op, r, obs) ==
    /\ ACCESS_TOKEN' = r.s.tok
    /\ REFRESH_TOKEN' = r.s.rt
    /\ fyers_instance' = r.s.inst
    /\ last' = obs
    /\ mutation' = Mutation(op, r, mutation)
    /\ UNCHANGED <<mainvars, th>>

Install(op, ep, lacks, r) == InstallWith(op, r, Observed(op, ep, lacks, r))

\* The state parameter of a callback's query: absent, or some value.  Nothing
\* is stored by /login to compare it with.
QueryStates == {Absent, 1}

\* Mutant: the callback insists on a handshake begun by /login and on a state
\* parameter.
CodeAccepted_RequiresPending(hasCode, state, pending) ==
    hasCode /\ pending /\ state # Absent

\* Mutant: the `if not auth_code` test is missing.
CodeAccepted_Always(hasCode, state, pending) == TRUE

\* fyers_auth_callback, lines 66-68: the callback goes on to the exchange
\* when the query carries an auth_code; the state parameter is not read and
\* no pending authorization (a /login handled just before) is consulted.
CodeAccepted(hasCode, state, pending) == hasCode

\* The constructor's outcome is an input only where the handler would call it.
CtorChoices(s) == IF ~Truthy(s.inst) /\ Truthy(s.tok) THEN BOOLEAN ELSE {TRUE}
\* The broker's outcome is an input only where the handler reaches the call.
DownChoices(ep, p) == IF Validate(ep, p) = "ok" THEN Downstream ELSE {"ok"}

index ==
    /\ prog = "app"
    /\ \E ctorOk \in CtorChoices(Session) :
        Install("index", "-", FALSE, IndexResult(Session, ctorOk))

login ==
    /\ prog = "app"
    /\ \E urlOk \in BOOLEAN :
        Install("login", "-", FALSE, LoginResult(Session, urlOk))

fyers_auth_callback ==
    /\ prog = "app"
    /\ \E hasCode \in BOOLEAN :
      \E resp \in (IF hasCode THEN Responses ELSE {Response("raise", Absent, None)}) :
        \E ctorOk \in (IF hasCode /\ Exchange(resp) = "token" THEN BOOLEAN ELSE {TRUE}) :
        \E state \in (IF hasCode THEN QueryStates ELSE {Absent}) :
          LET r == CallbackResult(Session,
                                  CodeAccepted(hasCode, state, last.op = "login"),
                                  resp, ctorOk)
          IN InstallWith("callback", r,
                 [Observed("callback", "-", FALSE, r) EXCEPT
                     !.code = hasCode,
                     !.handshake =
                         IF last.op = "login" /\ state # Absent THEN "full"
                         ELSE IF last.op = "init" /\ state = Absent THEN "none"
                         ELSE "part",
                     !.offered = IF Exchange(resp) = "token" THEN resp.at ELSE None])

proxy_request ==
    /\ prog = "app"
    /\ \E ep \in Endpoints, ctorOk \in CtorChoices(Session) :
        \E p \in PayloadsFor(ep) : \E d \in DownChoices(ep, p) :
            Install("proxy", Template(ep), Lacks(ep, p), ProxyResult(Session, ep, p, d, ctorOk))

logout_fyers ==
    /\ prog = "app"
    /\ \E d \in Downstream, ctorOk \in CtorChoices(Session) :
        Install("logout", "logout", FALSE, LogoutResult(Session, d, ctorOk))

analyze_with_gemini ==
    /\ prog = "app"
    /\ \E p \in PayloadsFor("gemini_analyze") :
      \E u \in (IF PyTruthy(p) THEN Upstream ELSE {"valid"}) :
        Install("analyze", "gemini_analyze", FALSE, AnalyzeResult(Session, p, u))


\* --------------------------------------------------------- fyers_auth.py
\* A FyersAuthenticator: [access_token, fyers_model].  Each method gives the
\* object it leaves, the value returned and whether it raised.
Authenticator(tok, model) == [access_token |-> tok, fyers_model |-> model]
Ret(a, ret, raised) == [a |-> a, ret |-> ret, raised |-> raised]

\* get_auth_code_url
get_auth_code_url(a, urlOk) == Ret(a, None, ~urlOk)

\* generate_access_token: nothing is caught, so a raising exchange raises.
generate_access_token(a, resp) ==
    IF resp.kind = "raise" THEN Ret(a, None, TRUE)
    ELSE IF resp.kind = "dict" /\ resp.at # Absent /\ Truthy(resp.at)
    THEN Ret([a EXCEPT !.access_token = resp.at], resp.at, FALSE)
    ELSE Ret(a, None, FALSE)

\* get_fyers_model: raises without a token; constructs the model once.
get_fyers_model(a, ctorOk) ==
    IF ~Truthy(a.access_token) THEN Ret(a, None, TRUE)
    ELSE IF ~Truthy(a.fyers_model)
    THEN IF ctorOk
         THEN Ret([a EXCEPT !.fyers_model = FyersModel(a.access_token)],
                  FyersModel(a.access_token), FALSE)
         ELSE Ret(a, None, TRUE)
    ELSE Ret(a, a.fyers_model, FALSE)

\* The __main__ script: url, then the token, then the model, then the profile.
script_url ==
    /\ prog = "script"
    /\ script_pc = "start"
    /\ \E urlOk \in BOOLEAN :
          LET r == get_auth_code_url(auth, urlOk)
          IN /\ script_pc' = IF r.raised THEN "crashed" ELSE "url"
             /\ last' = [Obs("script_url", "-", 0) EXCEPT !.escaped = r.raised]
    /\ UNCHANGED <<appvars, prog, auth, fyers_api_client, started, mutation, th>>

script_token ==
    /\ prog = "script"
    /\ script_pc = "url"
    /\ \E resp \in Responses :
          LET r == generate_access_token(auth, resp)
          IN /\ auth' = r.a
             /\ script_pc' = IF r.raised THEN "crashed"
                             ELSE IF Truthy(r.ret) THEN "token" ELSE "done"
             /\ last' = [Obs("script_token", "-", 0) EXCEPT
                            !.escaped = r.raised, !.exch = Exchange(resp),
                            !.issued = r.ret]
             /\ mutation' = IF Truthy(r.ret) THEN "auth_ok" ELSE "auth_failed"
    /\ UNCHANGED <<appvars, prog, fyers_api_client, started, th>>

script_model ==
    /\ prog = "script"
    /\ script_pc = "token"
    /\ \E ctorOk \in BOOLEAN :
          LET r == get_fyers_model(auth, ctorOk)
          IN /\ auth' = r.a
             /\ script_pc' = IF r.raised THEN "crashed" ELSE "model"
             /\ last' = [Obs("script_model", "-", 0) EXCEPT
                            !.escaped = r.raised, !.built = 1]
    /\ UNCHANGED <<appvars, prog, fyers_api_client, started, mutation, th>>

script_profile ==
    /\ prog = "script"
    /\ script_pc = "model"
    /\ \E d \in Downstream :
          /\ script_pc' = IF d = "raise" THEN "crashed" ELSE "done"
          /\ last' = [Obs("script_profile", "-", 0) EXCEPT
                         !.escaped = (d = "raise"), !.calls = 1, !.down = d]
    /\ UNCHANGED <<appvars, prog, auth, fyers_api_client, started, mutation, th>>

\* --------------------------------------------------------------- main.py
\* Mutant: a profile whose status is not ok discards the client as well.
StartupResult_RequiresOkProfile(a, client, envTok, ctorOk, profile) ==
    IF ~Truthy(envTok) THEN [a |-> a, client |-> client, calls |-> 0, built |-> 0]
    ELSE LET a1 == [a EXCEPT !.access_token = envTok]
             m == get_fyers_model(a1, ctorOk)
         IN IF m.raised
            THEN [a |-> m.a, client |-> None, calls |-> 0, built |-> 1]
            ELSE IF profile # "ok"
            THEN [a |-> m.a, client |-> None, calls |-> 1, built |-> 1]
            ELSE [a |-> m.a, client |-> m.ret, calls |-> 1, built |-> 1]

\* initialize_fyers_client (the before_first_request hook).  envTok is
\* os.getenv("FYERS_ACCESS_TOKEN"); profile is what get_profile does.
StartupResult(a, client, envTok, ctorOk, profile) ==
    IF ~Truthy(envTok) THEN [a |-> a, client |-> client, calls |-> 0, built |-> 0]
    ELSE LET a1 == [a EXCEPT !.access_token = envTok]
             m == get_fyers_model(a1, ctorOk)
         IN IF m.raised
            THEN [a |-> m.a, client |-> None, calls |-> 0, built |-> 1]
            ELSE IF profile = "raise"
            THEN [a |-> m.a, client |-> None, calls |-> 1, built |-> 1]
            ELSE [a |-> m.a, client |-> m.ret, calls |-> 1, built |-> 1]

initialize_fyers_client ==
    /\ prog = "main"
    /\ ~started
    /\ \E envTok \in {None} \cup Tokens, ctorOk \in BOOLEAN, profile \in Downstream :
          LET r == StartupResult(auth, fyers_api_client, envTok, ctorOk, profile)
          IN /\ auth' = r.a
             /\ fyers_api_client' = r.client
             /\ last' = [Obs("startup", "-", 0) EXCEPT
                            !.calls = r.calls, !.built = r.built,
                            !.down = IF r.calls = 1 THEN profile ELSE "none",
                            !.exch = IF Truthy(envTok) THEN "token" ELSE "none",
                            !.issued = envTok]
             /\ mutation' = IF Truthy(envTok) THEN "configure" ELSE mutation
    /\ started' = TRUE
    /\ UNCHANGED <<appvars, prog, script_pc, th>>

\* get_scalping_signal.  Reading the body is outside the try block, so a body
\* that is unreadable or has no .get escapes the handler.
ScalpingResult(client, p, d) ==
    IF ~Truthy(client) THEN Result(None, 500)
    ELSE IF p.kind \notin {"dict", "emptydict"}
    THEN [Result(None, 500) EXCEPT !.escaped = TRUE]
    ELSE IF d = "raise"
    THEN [Result(None, 500) EXCEPT !.calls = 1, !.down = d]
    ELSE IF d = "ok"
    THEN [Result(None, 200) EXCEPT !.calls = 1, !.down = d]
    ELSE [Result(None, 500) EXCEPT !.calls = 1, !.down = d]

get_scalping_signal ==
    /\ prog = "main"
    /\ started
    /\ \E p \in PayloadsFor("history"), d \in Downstream :
          last' = Finish("scalping", "get-scalping-signal", FALSE,
                         ScalpingResult(fyers_api_client, p, d))
    /\ UNCHANGED <<appvars, mainvars, mutation, th>>

\* ------------------------------------------------------------------- Spec
\* A thread of ConcSpec: where it is in its handler (pc), the handler (op),
\* the one local value it holds (val: the refresh token to store, the token
\* argument of initialize_fyers_model, or the handle in fyers_api) and the
\* status it is about to answer with.
Idle == [pc |-> "idle", op |-> "-", val |-> None, status |-> 0]

Init ==
    /\ ACCESS_TOKEN = None
    /\ REFRESH_TOKEN = None
    /\ fyers_instance = None
    /\ prog \in {"app", "main", "script"}
    /\ auth = Authenticator(None, None)
    /\ fyers_api_client = None
    /\ started = FALSE
    /\ script_pc = "start"
    /\ mutation = "none"
    /\ last = Obs("init", "-", 0)
    /\ th = [t \in 1..NumThreads |-> Idle]

Next ==
    \/ index
    \/ login
    \/ fyers_auth_callback
    \/ proxy_request
    \/ logout_fyers
    \/ analyze_with_gemini
    \/ initialize_fyers_client
    \/ get_scalping_signal
    \/ script_url
    \/ script_token
    \/ script_model
    \/ script_profile

Spec == Init /\ [][Next]_vars


\* --------------------------------------------------------------- ConcSpec
\* The handlers of app.py again, one access of a global per step, so that
\* threads interleave wherever the interpreter can switch between them.
Threads == 1..NumThreads

At(t, pc) == th[t].pc = pc
Goto(t, pc) == th' = [th EXCEPT ![t].pc = pc]
Done(t) == th' = [th EXCEPT ![t] = Idle]

\* A request arrives and a free thread takes it.
t_start(t) ==
    /\ prog = "app"
    /\ At(t, "idle")
    /\ \E op \in {"proxy", "logout", "callback", "index"} :
          th' = [th EXCEPT ![t] = [Idle EXCEPT
                    !.op = op,
                    !.pc = CASE op = "callback" -> "c_exchange"
                             [] op = "index" -> "i_tok"
                             [] OTHER -> "g_inst"]]
    /\ UNCHANGED <<appvars, mainvars, last, mutation>>

\* index, line 48: `if ACCESS_TOKEN and ...`
t_index_tok(t) ==
    /\ At(t, "i_tok")
    /\ IF Truthy(ACCESS_TOKEN) THEN Goto(t, "g_inst") ELSE Done(t)
    /\ UNCHANGED <<appvars, mainvars, last, mutation>>

\* _get_fyers_instance, line 39: `not fyers_instance`
t_get_inst(t) ==
    /\ At(t, "g_inst")
    /\ IF Truthy(fyers_instance) THEN Goto(t, "g_ret") ELSE Goto(t, "g_tok")
    /\ UNCHANGED <<appvars, mainvars, last, mutation>>

\* _get_fyers_instance, line 39: `and ACCESS_TOKEN`
t_get_tok(t) ==
    /\ At(t, "g_tok")
    /\ IF Truthy(ACCESS_TOKEN) THEN Goto(t, "g_arg") ELSE Goto(t, "g_ret")
    /\ UNCHANGED <<appvars, mainvars, last, mutation>>

\* line 41 and line 88: ACCESS_TOKEN is read again as the argument of
\* initialize_fyers_model
t_init_arg(t) ==
    /\ th[t].pc \in {"g_arg", "c_arg"}
    /\ th' = [th EXCEPT ![t].pc = "init", ![t].val = ACCESS_TOKEN]
    /\ UNCHANGED <<appvars, mainvars, last, mutation>>

\* initialize_fyers_model, lines 29-31.  A raising constructor ends the
\* handler: caught by the callback (500), uncaught elsewhere.
t_init(t) ==
    /\ At(t, "init")
    /\ \E ctorOk \in (IF Truthy(th[t].val) THEN BOOLEAN ELSE {TRUE}) :
          LET i == initialize_fyers_model(th[t].val, fyers_instance, ctorOk)
          IN /\ fyers_instance' = i.inst
             /\ IF i.raised \/ th[t].op = "callback" THEN Done(t) ELSE Goto(t, "g_ret")
    /\ UNCHANGED <<ACCESS_TOKEN, REFRESH_TOKEN, mainvars, last, mutation>>

\* _get_fyers_instance, line 42: `return fyers_instance`, and the caller's
\* `if not fyers_api`
t_get_ret(t) ==
    /\ At(t, "g_ret")
    /\ th' = [th EXCEPT ![t] =
                 IF th[t].op = "index" THEN Idle
                 ELSE IF Truthy(fyers_instance)
                 THEN [@ EXCEPT !.pc = "call", !.val = fyers_instance]
                 ELSE IF th[t].op = "logout"
                 THEN [@ EXCEPT !.pc = "x_tok", !.val = None, !.status = 200]
                 ELSE Idle]
    /\ UNCHANGED <<appvars, mainvars, last, mutation>>

\* The try block of a proxy handler: read and validate the payload, call the
\* broker with the handle in fyers_api.
t_call(t) ==
    /\ At(t, "call")
    /\ th[t].op = "proxy"
    /\ \E ep \in Endpoints : \E p \in PayloadsFor(ep) : \E d \in DownChoices(ep, p) :
          IF Validate(ep, p) = "raise" \/ (Validate(ep, p) = "ok" /\ d = "raise")
          THEN th' = [th EXCEPT ![t].pc = "x_tok", ![t].status = 401]
          ELSE Done(t)
    /\ UNCHANGED <<appvars, mainvars, last, mutation>>

\* logout_fyers, line 508: fyers_api.logout()
t_logout_call(t) ==
    /\ At(t, "call")
    /\ th[t].op = "logout"
    /\ \E d \in Downstream :
          th' = [th EXCEPT ![t].pc = "x_tok",
                           ![t].status = IF d = "raise" THEN 500 ELSE 200]
    /\ UNCHANGED <<appvars, mainvars, last, mutation>>

\* `ACCESS_TOKEN = None` of an except clause or of logout
t_clear_tok(t) ==
    /\ At(t, "x_tok")
    /\ ACCESS_TOKEN' = None
    /\ Goto(t, "x_inst")
    /\ UNCHANGED <<REFRESH_TOKEN, fyers_instance, mainvars, last, mutation>>

\* `fyers_instance = None` that follows it
t_clear_inst(t) ==
    /\ At(t, "x_inst")
    /\ fyers_instance' = None
    /\ Done(t)
    /\ UNCHANGED <<ACCESS_TOKEN, REFRESH_TOKEN, mainvars, last, mutation>>

\* fyers_auth_callback, lines 66-85: the exchange, then
\* `ACCESS_TOKEN = response["access_token"]`
t_cb_exchange(t) ==
    /\ At(t, "c_exchange")
    /\ \E hasCode \in BOOLEAN, resp \in Responses :
          IF ~hasCode \/ Exchange(resp) \in {"raise", "nokey"}
          THEN Done(t) /\ UNCHANGED ACCESS_TOKEN
          ELSE /\ ACCESS_TOKEN' = resp.at
               /\ th' = [th EXCEPT ![t].pc = "c_rt", ![t].val = resp.rt]
    /\ UNCHANGED <<REFRESH_TOKEN, fyers_instance, mainvars, last, mutation>>

\* line 86: `REFRESH_TOKEN = response.get("refresh_token")`
t_cb_refresh(t) ==
    /\ At(t, "c_rt")
    /\ REFRESH_TOKEN' = th[t].val
    /\ Goto(t, "c_arg")
    /\ UNCHANGED <<ACCESS_TOKEN, fyers_instance, mainvars, last, mutation>>

ConcNext ==
    \E t \in Threads :
        \/ t_start(t)
        \/ t_index_tok(t)
        \/ t_get_inst(t)
        \/ t_get_tok(t)
        \/ t_init_arg(t)
        \/ t_init(t)
        \/ t_get_ret(t)
        \/ t_call(t)
        \/ t_logout_call(t)
        \/ t_clear_tok(t)
        \/ t_clear_inst(t)
        \/ t_cb_exchange(t)
        \/ t_cb_refresh(t)

ConcSpec == Init /\ [][ConcNext]_vars


\* ----------------------------------------------------------------- claims
\* A handle is bound to a credential when it was constructed with it.
Bound(client, tok) == Truthy(client) => (Truthy(tok) /\ BuiltFrom(client) = tok)

\* C1: after any sequence of complete handlers the stored client handle is
\* absent or was constructed from the credential stored now; without a
\* credential there is no handle.  (app.py globals, the authenticator and the
\* client of main.py.)
C1_ClientBoundToCredential ==
    /\ Bound(fyers_instance, ACCESS_TOKEN)
    /\ Bound(auth.fyers_model, auth.access_token)
    /\ Bound(fyers_api_client, auth.access_token)

\* C3: whenever a handler is about to read the session through
\* _get_fyers_instance, the session is one an atomic invalidate / callback
\* could have left: no credential without its client, no client without its
\* credential, no client built from another credential.
C3_AtomicSessionUpdates ==
    \A t \in Threads :
        At(t, "g_inst") =>
            /\ Bound(fyers_instance, ACCESS_TOKEN)
            /\ Truthy(ACCESS_TOKEN) => Truthy(fyers_instance)

\* C4: a raising broker call is answered 401 and leaves no client behind.
C4_DownstreamRaiseInvalidates ==
    (last.op \in {"proxy", "logout", "scalping"} /\ last.down = "raise") =>
        /\ last.status = 401
        /\ ~Truthy(ACCESS_TOKEN) /\ ~Truthy(fyers_instance)
        /\ ~Truthy(fyers_api_client)


\* What _get_fyers_instance() returns in the current state, where that does
\* not hang on a constructor call: a handle, or empty.
ReturnsHandle == Truthy(fyers_instance)
ReturnsEmpty == ~Truthy(fyers_instance) /\ ~Truthy(ACCESS_TOKEN)

\* The startup hook caught an exception (constructor or profile call).
StartupRaised == (last.built = 1 /\ last.calls = 0) \/ last.down = "raise"

\* C2 (as stated, its last clause): immediately after a completeAuthorization
\* whose token exchange failed, currentClient() returns empty, so at the
\* least it returns no handle.
C2_EmptyAfterFailedAuthorization ==
    (prog = "app" /\ last.op = "callback" /\ last.exch \in {"raise", "nokey"})
        => ~ReturnsHandle

\* C2 (amended): currentClient() returns a handle while the most recent
\* mutation is a successful completeAuthorization, returns empty while it is
\* an invalidate (or there was none), and a failed completeAuthorization does
\* not empty it: a handle present before the failed call is still returned
\* after it.  After configureFromToken the client of main.py is present
\* exactly when neither the constructor nor the profile call raised.
C2_ClientFollowsLastMutation ==
    /\ prog = "app" =>
          /\ mutation = "auth_ok" => ReturnsHandle
          /\ mutation \in {"none", "invalidate"} => ReturnsEmpty
          /\ (mutation = "auth_failed" /\ last.op = "callback"
                 /\ Truthy(last.pre.inst)) => ReturnsHandle
    /\ (prog = "main" /\ last.op = "startup" /\ mutation = "configure") =>
          (Truthy(fyers_api_client) <=> ~StartupRaised)

\* C2 witness: a callback whose exchange raised, on a populated session.
C2_Witness ==
    /\ prog = "app" /\ last.op = "callback" /\ last.exch = "raise"
    /\ mutation = "auth_failed" /\ Truthy(last.pre.inst) /\ ReturnsHandle

\* The session was empty when the last handler started.
PreEmpty ==
    IF last.op = "scalping" THEN ~Truthy(last.preclient)
    ELSE ~Truthy(last.pre.tok) /\ ~Truthy(last.pre.inst)

\* C5 (as stated): every endpoint invoked on an empty session answers 401 and
\* makes no broker call.
C5_EmptySessionIs401 ==
    (last.op \in {"proxy", "logout", "scalping"} /\ PreEmpty) =>
        (last.status = 401 /\ last.calls = 0)

\* C5 (amended): an endpoint invoked on an empty session makes no broker call;
\* the proxy handlers answer 401, logout answers 200 (local confirmation) and
\* get-scalping-signal answers 500.
C5_EmptySessionNoDownstream ==
    (last.op \in {"proxy", "logout", "scalping"} /\ PreEmpty) =>
        /\ last.calls = 0
        /\ last.status = CASE last.op = "proxy" -> 401
                           [] last.op = "logout" -> 200
                           [] OTHER -> 500

\* C5 witness: a request such as POST history on an empty session, answered 401.
C5_Witness ==
    /\ last.op = "proxy" /\ last.ep = Template("history") /\ PreEmpty
    /\ last.status = 401 /\ last.calls = 0

\* C6: a completeAuthorization that fails (exchange raises, provider error,
\* no usable access_token) signals an error and leaves credential, refresh
\* token and client as they were.
C6_FailedAuthorizationLeavesSession ==
    /\ (last.op = "callback" /\ last.exch \in {"raise", "nokey", "falsy"}) =>
          (last.status >= 400 /\ Session = last.pre)
    /\ (last.op = "script_token" /\ last.exch \in {"raise", "nokey", "falsy"}) =>
          auth = last.preauth

\* C7: after a successful completeAuthorization the stored credential is the
\* token just issued and the stored client is one constructed for it in that
\* very handler; the script's get_fyers_model returns a model of its token.
C7_SuccessInstallsFreshClient ==
    /\ (last.op = "callback" /\ last.exch = "token" /\ last.status = 302) =>
          /\ ACCESS_TOKEN = last.issued
          /\ Truthy(fyers_instance)
          /\ BuiltFrom(fyers_instance) = last.issued
          /\ last.built = 1
    /\ (last.op = "script_model" /\ ~last.escaped) =>
          /\ Truthy(auth.fyers_model)
          /\ BuiltFrom(auth.fyers_model) = auth.access_token

\* C7 witness: a successful callback on a session holding an older credential
\* and its client.
C7_Witness ==
    /\ last.op = "callback" /\ last.exch = "token" /\ last.status = 302
    /\ Truthy(last.pre.tok) /\ Truthy(last.pre.inst)
    /\ last.pre.tok # ACCESS_TOKEN /\ last.pre.inst # fyers_instance

\* C8: a proxy request that ends before any broker call leaves credential and
\* client as they were, and a populated session is emptied only by a raising
\* broker call or a logout.
C8_NoInvalidationWithoutDownstreamCall ==
    /\ (last.op = "proxy" /\ last.calls = 0 /\ Truthy(last.pre.inst)) =>
          (ACCESS_TOKEN = last.pre.tok /\ fyers_instance = last.pre.inst)
    /\ (prog = "app" /\ Truthy(last.pre.tok) /\ Truthy(last.pre.inst)
           /\ ReturnsEmpty) =>
          (last.down = "raise" \/ last.op = "logout")

\* The credential is as it was when the last handler started.
CredentialKept == ACCESS_TOKEN = last.pre.tok /\ REFRESH_TOKEN = last.pre.rt

\* C9 (as stated): a broker call that returns is answered 200 with the
\* broker's body, and the session stays as it was, whatever the body says.
C9_ReturnIsRelayed ==
    (last.op \in {"proxy", "logout", "scalping"} /\ last.down \in {"ok", "error"}) =>
        /\ last.status = 200 /\ last.relayed
        /\ IF last.op = "scalping" THEN fyers_api_client = last.preclient
           ELSE CredentialKept /\ Truthy(fyers_instance)

\* C9 (amended): in the proxy handlers of app.py other than logout a broker
\* call that returns is answered 200 with the broker's body, the credential
\* unchanged and the client used for the call still in place, whatever the
\* body says.  logout relays the body with 200 too but clears the session;
\* get-scalping-signal keeps its client but reads the body's status: 500 when
\* it is not ok, 200 with the analysis (not the body) when it is.
C9_ProxyRelaysVerbatim ==
    /\ (last.op = "proxy" /\ last.down \in {"ok", "error"}) =>
          /\ last.status = 200 /\ last.relayed
          /\ CredentialKept /\ Truthy(fyers_instance)
          /\ Truthy(last.pre.inst) => fyers_instance = last.pre.inst
    /\ (last.op = "logout" /\ last.down \in {"ok", "error"}) =>
          /\ last.status = 200 /\ last.relayed
          /\ ReturnsEmpty
    /\ (last.op = "scalping" /\ last.down \in {"ok", "error"}) =>
          /\ last.status = (IF last.down = "ok" THEN 200 ELSE 500)
          /\ ~last.relayed
          /\ fyers_api_client = last.preclient

\* C9 witness: a request such as GET funds whose broker body reports an error,
\* relayed with 200.
C9_Witness ==
    /\ last.op = "proxy" /\ last.ep = Template("funds") /\ last.down = "error"
    /\ last.status = 200 /\ last.relayed /\ Session = last.pre

\* C10: with an active session, a proxy request whose payload lacks a
\* required field is answered 400 and the broker is not called.
C10_MissingFieldIs400 ==
    (last.op = "proxy" /\ Truthy(last.pre.inst) /\ last.lacks) =>
        (last.status = 400 /\ last.calls = 0)


\* The last handler ran the two assignments of invalidate(): an except clause
\* of a proxy handler, or logout_fyers on any of its three paths.
LastInvalidated ==
    \/ last.op = "logout" /\ ~last.escaped
    \/ last.op = "proxy" /\ last.status = 401
          /\ (last.val = "raise" \/ last.down = "raise")

\* C11: invalidate() leaves credential and client empty, and is idempotent:
\* applied to the state an invalidation
\* leaves (credential and client empty) by a second failing request or a
\* second logout, it leaves that state as it is.
C11_InvalidateIdempotent ==
    /\ LastInvalidated =>
          /\ ACCESS_TOKEN = None /\ fyers_instance = None
    /\ (last.op \in {"proxy", "logout"} /\ PreEmpty) =>
          /\ Session = last.pre
          /\ ACCESS_TOKEN = None /\ fyers_instance = None

\* C11 witness: a second logout, on the session the first one emptied.
C11_Witness ==
    /\ LastInvalidated /\ last.op = "logout" /\ PreEmpty
    /\ mutation = "invalidate" /\ Session = last.pre /\ Truthy(REFRESH_TOKEN)

\* C12: once logout_fyers has handled a request, credential and client are
\* both empty, and the broker's logout was called only if the handler held a
\* client (one stored before, or one it constructed on the way).
C12_LogoutClearsSession ==
    last.op = "logout" =>
        /\ ACCESS_TOKEN = None /\ fyers_instance = None
        /\ last.calls > 0 => (Truthy(last.pre.inst) \/ last.built = 1)

\* C13: currentClient() never raises to its caller: no handler of app.py ends
\* with an exception that came out of _get_fyers_instance, and the
\* authenticator's get_fyers_model returns to the script and to the startup
\* hook instead of raising.
C13_CurrentClientNeverThrows ==
    /\ last.op \in {"index", "proxy", "logout"} => ~last.escaped
    /\ last.op = "script_model" => ~last.escaped
    /\ (last.op = "startup" /\ last.built = 1) => last.calls = 1

\* C14: between two consecutive assignments of ACCESS_TOKEN the FyersModel
\* constructor is invoked at most once, however many handlers call
\* _get_fyers_instance in between.
C14_ConstructedOncePerCredential == last.attempts <= 1

\* C15: no handler calls the broker more than once for one request, and a
\* broker call that raised was made once and is answered once, by the
\* handler's own error response; the script and the startup hook call the
\* broker at most once too.
C15_NoRetry ==
    /\ last.calls <= 1
    /\ (last.op \in {"proxy", "logout", "scalping"} /\ last.down = "raise") =>
          /\ last.calls = 1
          /\ ~last.escaped
          /\ last.status >= 400

\* C15 witness: a proxy request whose one broker call raised, answered 401.
C15_Witness ==
    /\ last.op = "proxy" /\ last.down = "raise" /\ last.calls = 1
    /\ last.status = 401 /\ Truthy(last.pre.inst)

\* C16: beginAuthorization leaves the session as it was, whether the URL
\* builder returns or raises: /login leaves ACCESS_TOKEN, REFRESH_TOKEN and
\* fyers_instance, get_auth_code_url leaves the authenticator.
C16_LoginLeavesSession ==
    /\ last.op = "login" => Session = last.pre
    /\ last.op = "script_url" => auth = last.preauth

\* C16 witness: /login on a populated session, and with the URL builder raising.
C16_Witness ==
    /\ last.op = "login" /\ last.escaped
    /\ Truthy(last.pre.tok) /\ Truthy(last.pre.inst) /\ Truthy(last.pre.rt)
    /\ Session = last.pre

\* C17: no request handler lets an exception out: whatever is raised while a
\* request is handled is caught in the handler and answered as a JSON error.
C17_NoExceptionEscapes ==
    last.op \in {"index", "login", "callback", "proxy", "logout", "analyze",
                 "scalping"} =>
        ~last.escaped

\* C18: after a startup with a token supplied (and a client constructed from
\* it), the authenticator holds that token and fyers_api_client is a client
\* built from it, whatever the profile call did: ok, not ok, or raise.
C18_StartupInstallsUnconditionally ==
    (last.op = "startup" /\ Truthy(last.issued) /\ last.calls = 1) =>
        /\ auth.access_token = last.issued
        /\ Truthy(fyers_api_client)
        /\ BuiltFrom(fyers_api_client) = last.issued

\* C18 (amended): a token supplied at startup is always stored in the
\* authenticator; fyers_api_client is a client built from it when the
\* constructor and the profile call both return (profile ok or not ok), and
\* is empty when either of them raises.
C18_StartupInstallsUnlessRaised ==
    (last.op = "startup" /\ Truthy(last.issued)) =>
        /\ auth.access_token = last.issued
        /\ IF StartupRaised THEN fyers_api_client = None
           ELSE /\ Truthy(fyers_api_client)
                /\ BuiltFrom(fyers_api_client) = last.issued
                /\ auth.fyers_model = fyers_api_client
        /\ last.down \in {"ok", "error"} => Truthy(fyers_api_client)

\* C18 witness: a startup whose profile call returned a body that is not ok;
\* the client is installed all the same.
C18_Witness ==
    /\ last.op = "startup" /\ Truthy(last.issued) /\ last.down = "error"
    /\ Truthy(fyers_api_client) /\ BuiltFrom(fyers_api_client) = last.issued

\* C19: /api/gemini/analyze, given data, answers 500 with the raw upstream
\* text attached when that text is not JSON or lacks a required key, and 200
\* with the six signal keys when it is JSON holding them.
C19_AnalyzeChecksUpstream ==
    (last.op = "analyze" /\ ~last.escaped /\ last.status # 400) =>
        IF last.upstream = "valid"
        THEN last.status = 200 /\ last.body = "signal"
        ELSE last.status = 500 /\ last.body = "error_with_raw"

\* C20: once a raising broker call has invalidated the session, and until a
\* callback succeeds, no request reaches the broker: every proxy request is
\* answered 401 and a logout makes no broker call.
C20_NoCallUntilReauthorized ==
    [][(last.dead /\ last'.op \in {"proxy", "logout"}) =>
          /\ last'.calls = 0
          /\ last'.op = "proxy" => last'.status = 401]_vars

\* C21: a proxy request whose try block raised clears only what its call was
\* made with: when its except clause assigns None to ACCESS_TOKEN and to
\* fyers_instance, what it overwrites is the credential its handle was built
\* from and that handle, not a credential or client a callback installed in
\* the meantime.
C21_FailureClearsOnlyItsCredential ==
    [][\A t \in Threads :
          (th[t].op = "proxy" /\ th[t].pc \in {"x_tok", "x_inst"}
              /\ th'[t].pc # th[t].pc) =>
             /\ ACCESS_TOKEN' # ACCESS_TOKEN => ACCESS_TOKEN = BuiltFrom(th[t].val)
             /\ fyers_instance' # fyers_instance => fyers_instance = th[t].val]_vars

\* No request is in flight.
Quiescent == \A t \in Threads : At(t, "idle")

\* C22: whatever the interleaving of callbacks, proxy requests and logouts,
\* once no request is in flight the stored client is absent when the
\* credential is absent, and otherwise absent or built from that credential.
C22_QuiescentSessionConsistent ==
    Quiescent => Bound(fyers_instance, ACCESS_TOKEN)

\* C23: in the proxy handlers the `if not fyers_api` check comes before the
\* payload is read: a request on an empty session is answered 401, never 400,
\* and its payload is not validated, whether it carries the required fields
\* or lacks them.
C23_AuthCheckBeforeValidation ==
    (last.op = "proxy" /\ PreEmpty) =>
        /\ last.status = 401
        /\ last.val = "none"
        /\ Session = last.pre

\* C23 witness: a basket request without a list (such as place_basket_orders
\* with a body that is no array) on an empty session, answered 401.
C23_Witness ==
    /\ last.op = "proxy" /\ last.ep = Template("place_basket_orders")
    /\ last.lacks /\ PreEmpty /\ last.status = 401 /\ last.val = "none"

\* C24: a callback with an auth code the provider accepts installs the token
\* issued for it and is never turned away, whatever the query's state
\* parameter and whether or not a /login came before; once the client is
\* constructed it answers 302 with that client in place.
C24_CallbackNeedsNoPendingAuthorization ==
    (last.op = "callback" /\ last.code /\ Truthy(last.offered)) =>
        /\ last.exch = "token"
        /\ ACCESS_TOKEN = last.offered
        /\ last.status # 400
        /\ last.status = 302 => BuiltFrom(fyers_instance) = last.offered

\* C24 witness: the very first request is a callback without state parameter,
\* and it installs the credential.
C24_Witness ==
    /\ last.op = "callback" /\ last.code /\ last.handshake = "none"
    /\ Truthy(last.offered) /\ ACCESS_TOKEN = last.offered /\ last.status = 302

\* C25: a callback without auth_code is answered 400, attempts no exchange
\* and no construction, and leaves credential, refresh token and client as
\* they were.
C25_CallbackWithoutCodeIs400 ==
    (last.op = "callback" /\ ~last.code) =>
        /\ last.status = 400
        /\ last.exch = "none" /\ last.built = 0
        /\ Session = last.pre

\* C25 witness: a callback without auth_code on a populated session.
C25_Witness ==
    /\ last.op = "callback" /\ ~last.code /\ last.status = 400
    /\ Truthy(last.pre.tok) /\ Truthy(last.pre.inst) /\ Truthy(last.pre.rt)
    /\ Session = last.pre

\* C26: no credential material outlives the session: the refresh token is
\* stored only while an access token is, so right after an invalidation or a
\* logout of a session that held an access token and its client, the access
\* token and the refresh token are both empty.
C26_RefreshTokenDiesWithSession ==
    (LastInvalidated /\ Truthy(last.pre.tok) /\ Truthy(last.pre.inst)) =>
        (~Truthy(ACCESS_TOKEN) /\ ~Truthy(REFRESH_TOKEN))

====
